---- MODULE Spec2Model ----
(***************************************************************************)
(* Model of osrs_price_cli: the on-disk cache of the item mapping and the  *)
(* price table, the refresh decisions, the two loaders and the name        *)
(* matcher.  The repository holds two variants of the cache code: the      *)
(* free functions of src/main.rs (impl = "main") and the Client of         *)
(* src/client.rs with the configuration of src/config.rs (impl = "client").*)
(* Time is counted in ticks of 1/TicksPerSec second so that the whole      *)
(* second truncation of Duration::as_secs is visible.                      *)
(***************************************************************************)
EXTENDS Integers, Sequences, FiniteSets, TLC

VARIABLES
    impl,       \* which variant of the cache code is installed
    now,        \* SystemTime::now(), in ticks
    dirExists,  \* the cache directory exists
    files,      \* content of mappings.json / prices.json, or Absent
    mtime,      \* modification time of each cache file, in ticks
    cli,        \* the flags of the current run
    phase,      \* "idle", "mappings", "prices", "display", "exited"
    step,       \* position inside the current load
    load,       \* what the current (or last) load of the run did
    results,    \* the values the loads of the run returned to main
    lastRefresh,\* per dataset: the value its last load returned, if that
                \* load refreshed and succeeded
    exit,       \* how the run ended: "none", "ok", "err", "panic"
    item,       \* matcher: the query
    mappings,   \* matcher: the mapping collection
    matches,    \* matcher: the returned set of ids, in a 0/1 sequence
    out         \* what the run printed, and how the locale lookup went

vars == <<impl, now, dirExists, files, mtime, cli, phase, step, load, results,
          lastRefresh, exit, item, mappings, matches, out>>

\* the variables of the matching and display stage of a run
matchVars == <<item, mappings, matches, out>>

---------------------------------------------------------------------------
(* Bounds of the model *)

TicksPerSec == 2
TimeSlack == 1
MaxQueryLen == 2
MaxMappings == 2
MaxId == 2

---------------------------------------------------------------------------
(* Time *)

FiveMinutes == 5 * 60

DefaultTtlSecs == 300

\* Duration::from_secs
FromSecs(s) == s * TicksPerSec

\* Duration::as_secs: whole seconds, the fraction is dropped
AsSecs(d) == d \div TicksPerSec

\* the clock values the environment may show: the start, and the ticks
\* around five minutes later
Times ==
    {0} \cup
    ((FromSecs(FiveMinutes) - TimeSlack) .. (FromSecs(FiveMinutes) + TimeSlack))

\* the values of --price-cache-ttl-secs tried
TtlSecsChoices == {0, DefaultTtlSecs}

---------------------------------------------------------------------------
(* Datasets, response bodies and their decoding *)

Impls == {"main", "client"}
Datasets == {"mappings", "prices"}

Absent == "<absent>"

MapBodyA == "[{\"id\":1,\"name\":\"Ab\"}]"
MapBodyAPretty == "[ {\"examine\":\"x\", \"id\": 1, \"name\": \"Ab\"} ]"
MapBodyB == "[{\"id\":1,\"name\":\"Ab\"},{\"id\":2,\"name\":\"bA\"}]"
PriceBodyA == "{\"data\":{\"1\":{\"high\":7,\"low\":null}}}"
PriceBodyAPretty == "{ \"data\": {\"1\": {\"high\": 7, \"highTime\": 9, \"low\": null}} }"
PriceBodyB == "{\"data\":{\"2\":{\"high\":3,\"low\":2}}}"
BadBody == "<html>502 Bad Gateway</html>"
EmptyBody == ""

\* what the remote endpoint of a dataset may answer
Responses(d) ==
    IF d = "mappings"
    THEN {MapBodyA, MapBodyAPretty, MapBodyB, BadBody}
    ELSE {PriceBodyA, PriceBodyAPretty, PriceBodyB, BadBody}

MappingsA == << [id |-> 1, name |-> <<"A", "b">>] >>
MappingsB == << [id |-> 1, name |-> <<"A", "b">>],
                [id |-> 2, name |-> <<"b", "A">>] >>

\* Option<T> is a sequence of zero or one element
None == << >>
Some(x) == << x >>

\* serde_json into Vec<ItemMapping>: unknown fields and white space are
\* dropped; anything that is no array of {id, name} objects is an error (None)
ItemMappings_decode(body) ==
    CASE body = MapBodyA -> Some(MappingsA)
      [] body = MapBodyAPretty -> Some(MappingsA)
      [] body = MapBodyB -> Some(MappingsB)
      [] OTHER -> None

\* serde_json into PriceResults of main.rs: data is keyed by String
main_PriceResults_decode(body) ==
    CASE body = PriceBodyA ->
            Some([data |-> [k \in {"1"} |-> [high |-> Some(7), low |-> None]]])
      [] body = PriceBodyAPretty ->
            Some([data |-> [k \in {"1"} |-> [high |-> Some(7), low |-> None]]])
      [] body = PriceBodyB ->
            Some([data |-> [k \in {"2"} |-> [high |-> Some(3), low |-> Some(2)]]])
      [] OTHER -> None

\* serde_json into PriceResults of client.rs: data is keyed by u32
Client_PriceResults_decode(body) ==
    CASE body = PriceBodyA ->
            Some([data |-> [k \in {1} |-> [high |-> Some(7), low |-> None]]])
      [] body = PriceBodyAPretty ->
            Some([data |-> [k \in {1} |-> [high |-> Some(7), low |-> None]]])
      [] body = PriceBodyB ->
            Some([data |-> [k \in {2} |-> [high |-> Some(3), low |-> Some(2)]]])
      [] OTHER -> None

\* the decoder a load of dataset d uses (serde_json::from_str on the fetched
\* body and serde_json::from_reader on the cache file parse alike)
Decode(i, d, body) ==
    IF d = "mappings" THEN ItemMappings_decode(body)
    ELSE IF i = "main" THEN main_PriceResults_decode(body)
    ELSE Client_PriceResults_decode(body)

---------------------------------------------------------------------------
(* Refresh decisions *)

\* a Client whose two cache paths name the same file
CacheFile_Shared(d) == "prices"

\* prices_cache / mappings_cache: the file of dataset d, cache_dir joined
\* with "prices.json" or "mappings.json"; files are named as the datasets
CacheFile(d) == d

\* the file a load of dataset d has no business with
OtherFile(d) == IF d = "mappings" THEN "prices" ELSE "mappings"

\* Path::exists on the cache file of d
Exists(d) == files[CacheFile(d)] # Absent

\* main.rs should_refresh_mapping
should_refresh_mapping(exists, refresh_mappings) ==
    IF ~exists \/ refresh_mappings THEN TRUE ELSE FALSE

\* client.rs Client::should_refresh_mappings
should_refresh_mappings(exists) == ~exists

\* main.rs should_refresh_prices.  metaOk and modOk tell whether metadata()
\* and modified() succeed; the result is "refresh", "cached" or "panic"
main_should_refresh_prices(exists, force_prices, metaOk, modOk, mt, clock) ==
    IF ~exists \/ force_prices THEN "refresh"
    ELSE IF ~metaOk THEN "panic"
    ELSE IF ~modOk THEN "panic"
    ELSE IF clock < mt THEN "panic"
    ELSE IF AsSecs(clock - mt) >= FiveMinutes THEN "refresh"
    ELSE "cached"

\* client.rs Client::should_refresh_prices
Client_should_refresh_prices(exists, metaOk, modOk, mt, clock, ttl) ==
    IF ~exists THEN "refresh"
    ELSE IF ~metaOk THEN "panic"
    ELSE IF ~modOk THEN "panic"
    ELSE IF clock < mt THEN "panic"
    ELSE IF clock - mt > ttl THEN "refresh"
    ELSE "cached"

\* a get_mappings that forgets the force flag
MappingsDecision_ForceIgnored(i, exists, force) ==
    IF ~exists THEN "refresh" ELSE "cached"

\* the condition of `if` at the head of get_mappings
MappingsDecision(i, exists, force) ==
    IF i = "main"
    THEN (IF should_refresh_mapping(exists, force) THEN "refresh" ELSE "cached")
    ELSE (IF force \/ should_refresh_mappings(exists) THEN "refresh" ELSE "cached")

\* a get_prices that takes an age it cannot determine for a stale cache
PricesDecision_UnknownAgeRefreshes(i, exists, force, metaOk, modOk, mt, clock, ttl) ==
    IF ~exists \/ force THEN "refresh"
    ELSE IF ~metaOk \/ ~modOk \/ clock < mt THEN "refresh"
    ELSE IF clock - mt > ttl THEN "refresh"
    ELSE "cached"

\* the condition of `if` at the head of get_prices
PricesDecision(i, exists, force, metaOk, modOk, mt, clock, ttl) ==
    IF i = "main"
    THEN main_should_refresh_prices(exists, force, metaOk, modOk, mt, clock)
    ELSE IF force THEN "refresh"
    ELSE Client_should_refresh_prices(exists, metaOk, modOk, mt, clock, ttl)

---------------------------------------------------------------------------
(* The matcher: get_matching_item_ids of src/main.rs *)

\* the characters of item names and queries: a letter in both cases, a letter
\* in lower case only and a character that is no letter
Alphabet == {"a", "A", "b", "'"}

\* char::to_lowercase
CharLower(c) == IF c = "A" THEN "a" ELSE c

\* str::to_lowercase
to_lowercase(s) == [i \in 1 .. Len(s) |-> CharLower(s[i])]

\* str::contains: some window of hay equals needle
contains(hay, needle) ==
    \E off \in 0 .. (Len(hay) - Len(needle)) :
        SubSeq(hay, off + 1, off + Len(needle)) = needle

\* a matcher that lower cases the names and not the query
get_matching_item_ids_RawQuery(name, ms) ==
    { ms[i].id : i \in { j \in DOMAIN ms :
                           contains(to_lowercase(ms[j].name), name) } }

\* a matcher that lower cases the query and not the names
get_matching_item_ids_RawNames(name, ms) ==
    { ms[i].id : i \in { j \in DOMAIN ms :
                           contains(ms[j].name, to_lowercase(name)) } }

\* get_matching_item_ids: the HashSet of the ids of the entries whose lower
\* cased name contains the lower cased query
get_matching_item_ids(name, ms) ==
    LET lower == to_lowercase(name)
    IN  { ms[i].id : i \in { j \in DOMAIN ms :
                               contains(to_lowercase(ms[j].name), lower) } }

\* strings over the alphabet of length n, and up to n
RECURSIVE StringsOfLen(_)
StringsOfLen(n) ==
    IF n = 0 THEN { << >> }
    ELSE { Append(s, c) : s \in StringsOfLen(n - 1), c \in Alphabet }

Queries == UNION { StringsOfLen(n) : n \in 0 .. MaxQueryLen }

\* the item names of the mapping collections tried
NamePool ==
    { <<"A", "b">>, <<"a", "'", "A">>, <<"b", "a", "b">>, <<"'", "b">>,
      <<"A", "A">>, <<"b">> }

Entries == [id : 1 .. MaxId, name : NamePool]

MappingCollections ==
    UNION { [1 .. n -> Entries] : n \in 0 .. MaxMappings }

---------------------------------------------------------------------------
(* State *)

\* the record of one load: what it decided and did, and what it found
NoLoad ==
    [ds |-> "none", decision |-> "none", fetch |-> "none", body |-> EmptyBody,
     mkdir |-> "none", write |-> "none", status |-> "none", val |-> None,
     open |-> "none", preFile |-> Absent, preDir |-> FALSE, age |-> 0,
     ageKnown |-> TRUE, prevRefresh |-> None, preOther |-> Absent]

NoCli == [refresh_mappings |-> FALSE, force_prices |-> FALSE,
          price_cache_ttl |-> FromSecs(DefaultTtlSecs)]

NoResults == [d \in Datasets |-> None]

\* nothing printed, SystemLocale not asked for
NoOut == [printed |-> {}, locale |-> "unused"]

MatchIdle ==
    /\ item = << >>
    /\ mappings = << >>
    /\ matches = None
    /\ out = NoOut

Init ==
    /\ impl \in Impls
    /\ now = 0
    /\ dirExists = FALSE
    /\ files = [d \in Datasets |-> Absent]
    /\ mtime = [d \in Datasets |-> 0]
    /\ cli = NoCli
    /\ phase = "idle"
    /\ step = "none"
    /\ load = NoLoad
    /\ results = NoResults
    /\ lastRefresh = [d \in Datasets |-> None]
    /\ exit = "none"
    /\ MatchIdle

---------------------------------------------------------------------------
(* One run of the tool: main of src/main.rs *)

\* a main that displays before it has loaded the prices
NextPhase_DisplayFirst(d) == "display"

\* the dataset after d in main: the mappings are loaded, then the prices
NextPhase(d) == IF d = "mappings" THEN "prices" ELSE "display"

\* the process starts: Cli::parse
StartRun(rm, fp, ttlSecs) ==
    /\ phase = "idle"
    /\ impl = "main" => ttlSecs = DefaultTtlSecs
    /\ cli' = [refresh_mappings |-> rm, force_prices |-> fp,
               price_cache_ttl |-> FromSecs(ttlSecs)]
    /\ phase' = "mappings"
    /\ step' = "decide"
    /\ UNCHANGED <<impl, now, dirExists, files, mtime, load, results,
                   lastRefresh, exit>>
    /\ UNCHANGED matchVars

\* the load of d ends with status st and value v: `?` in main returns the
\* error, a panic unwinds, and a value lets main go on
EndLoad(d, st, v) ==
    /\ results' = [results EXCEPT ![d] = v]
    /\ lastRefresh' = [lastRefresh EXCEPT ![d] =
           IF st = "ok" /\ load'.decision = "refresh" THEN v ELSE None]
    /\ IF st = "ok"
       THEN /\ phase' = NextPhase(d)
            /\ step' = IF d = "mappings" THEN "decide" ELSE "none"
            /\ exit' = exit
       ELSE /\ phase' = "exited"
            /\ step' = "none"
            /\ exit' = st

\* the load goes on to step s
Continue(s) ==
    /\ phase' = phase
    /\ step' = s
    /\ exit' = exit
    /\ UNCHANGED <<results, lastRefresh>>

\* the head of get_mappings / get_prices: the refresh decision
Decide(d) ==
    /\ phase = d
    /\ step = "decide"
    /\ \E metaOk, modOk \in BOOLEAN :
         LET force == IF d = "mappings" THEN cli.refresh_mappings
                      ELSE cli.force_prices
             consulted == d = "prices" /\ Exists(d) /\ ~force
             dec == IF d = "mappings"
                    THEN MappingsDecision(impl, Exists(d), force)
                    ELSE PricesDecision(impl, Exists(d), force, metaOk, modOk,
                                        mtime[CacheFile(d)], now,
                                        cli.price_cache_ttl)
         IN  /\ consulted \/ (metaOk /\ modOk)
             /\ load' = [NoLoad EXCEPT
                            !.ds = d,
                            !.decision = dec,
                            !.preFile = files[CacheFile(d)],
                            !.preOther = files[OtherFile(d)],
                            !.preDir = dirExists,
                            !.age = IF Exists(d) THEN now - mtime[CacheFile(d)]
                                    ELSE 0,
                            !.prevRefresh = lastRefresh[d],
                            !.ageKnown = ~consulted \/
                                         (metaOk /\ modOk /\
                                            mtime[CacheFile(d)] <= now),
                            !.status = IF dec = "panic" THEN "panic"
                                       ELSE "running"]
             /\ IF dec = "panic"
                THEN EndLoad(d, "panic", None)
                ELSE Continue(IF dec = "refresh" THEN "fetch" ELSE "open")
    /\ UNCHANGED <<impl, now, dirExists, files, mtime, cli>>
    /\ UNCHANGED matchVars

FetchFailures == {"send_failed", "recv_failed"}

\* a fetch whose errors are dropped: the load goes on with an empty body
AfterFetch_ErrorDropped(r) == "mkdir"

\* a fetch that falls back to the cache file when the transport fails
AfterFetch_StaleFallback(r) == IF r \in FetchFailures THEN "open" ELSE "mkdir"

\* the two `?` of the fetch: a failure of send() or of text() returns the
\* error from the load, a body goes on to the directory creation
AfterFetch(r) == IF r \in FetchFailures THEN "return" ELSE "mkdir"

\* client.get(URL).send().await?.text().await?
Fetch(d) ==
    /\ phase = d
    /\ step = "fetch"
    /\ \E r \in FetchFailures \cup Responses(d) :
         /\ load' = [load EXCEPT
                !.fetch = IF r \in FetchFailures THEN r ELSE "ok",
                !.body = IF r \in FetchFailures THEN EmptyBody ELSE r,
                !.status = IF AfterFetch(r) = "return" THEN "err" ELSE @]
         /\ IF AfterFetch(r) = "return"
            THEN EndLoad(d, "err", None)
            ELSE Continue(AfterFetch(r))
    /\ UNCHANGED <<impl, now, dirExists, files, mtime, cli>>
    /\ UNCHANGED matchVars

\* how a failed fs call ends the load: expect() panics, `?` returns the error
MkdirFailure(i, d) ==
    IF i = "main" /\ d = "mappings" THEN "panic" ELSE "err"

\* a write whose failure is swallowed
WriteFailure_Swallowed(i, d) == "ok"

WriteFailure(i, d) ==
    IF i = "main" THEN "panic" ELSE "err"

\* a load that does not create the directory
create_dir_all_Skipped(dir, ok) == dir

\* fs::create_dir_all: the directory exists after a call that succeeds
create_dir_all(dir, ok) == IF ok THEN TRUE ELSE dir

\* fs::create_dir_all(parent): nothing to do, and no failure, when the
\* directory is there
CreateDir(d) ==
    /\ phase = d
    /\ step = "mkdir"
    /\ \E ok \in BOOLEAN :
         /\ dirExists => ok
         /\ dirExists' = create_dir_all(dirExists, ok)
         /\ IF ok
            THEN /\ load' = [load EXCEPT !.mkdir = "ok"]
                 /\ Continue("write")
            ELSE /\ load' = [load EXCEPT !.mkdir = "failed",
                                         !.status = MkdirFailure(impl, d)]
                 /\ EndLoad(d, MkdirFailure(impl, d), None)
    /\ UNCHANGED <<impl, now, files, mtime, cli>>
    /\ UNCHANGED matchVars

\* a write of the wrong bytes: the body is cut short
Written_CutShort(outcome, old, body) ==
    IF outcome = "refused" THEN old ELSE EmptyBody

\* a write that removes the file when it fails
Written_RemovedOnFailure(outcome, old, body) ==
    IF outcome = "ok" THEN body ELSE Absent

\* what fs::write leaves in the file: the bytes given, or on a failure the old
\* content (the open failed) or a truncated file (the write failed)
Written(outcome, old, body) ==
    CASE outcome = "ok" -> body
      [] outcome = "truncated" -> EmptyBody
      [] OTHER -> old

\* fs::write(cache, &body)
WriteCache(d) ==
    /\ phase = d
    /\ step = "write"
    /\ \E outcome \in {"ok", "truncated", "refused"} :
         /\ ~dirExists => outcome = "refused"
         /\ files' = [files EXCEPT
                ![CacheFile(d)] = Written(outcome, @, load.body)]
         /\ mtime' = [mtime EXCEPT
                ![CacheFile(d)] = IF outcome # "refused" THEN now ELSE @]
         /\ IF outcome = "ok"
            THEN /\ load' = [load EXCEPT !.write = "ok"]
                 /\ Continue("parse")
            ELSE /\ load' = [load EXCEPT !.write = outcome,
                                         !.status = WriteFailure(impl, d)]
                 /\ EndLoad(d, WriteFailure(impl, d), None)
    /\ UNCHANGED <<impl, now, dirExists, cli>>
    /\ UNCHANGED matchVars

\* serde_json::from_str(&body), the value of the refresh branch
ParseBody(d) ==
    /\ phase = d
    /\ step = "parse"
    /\ LET v == Decode(impl, d, load.body)
           st == IF v = None THEN "err" ELSE "ok"
       IN  /\ load' = [load EXCEPT !.val = v, !.status = st]
           /\ EndLoad(d, st, v)
    /\ UNCHANGED <<impl, now, dirExists, files, mtime, cli>>
    /\ UNCHANGED matchVars

\* a cached branch that deletes a cache file it cannot decode
ReadCache_PurgesCorrupt(d) ==
    /\ phase = d
    /\ step = "open"
    /\ \E openOk \in BOOLEAN :
         LET opened == openOk /\ Exists(d)
             v == IF opened THEN Decode(impl, d, files[CacheFile(d)]) ELSE None
             st == IF v = None THEN "err" ELSE "ok"
         IN  /\ load' = [load EXCEPT
                    !.open = IF opened THEN "ok" ELSE "failed",
                    !.val = v, !.status = st]
             /\ files' = [files EXCEPT
                    ![CacheFile(d)] = IF opened /\ v = None THEN Absent ELSE @]
             /\ EndLoad(d, st, v)
    /\ UNCHANGED <<impl, now, dirExists, mtime, cli>>
    /\ UNCHANGED matchVars

\* the cached branch: File::open(cache)? and serde_json::from_reader
ReadCache(d) ==
    /\ phase = d
    /\ step = "open"
    /\ \E openOk \in BOOLEAN :
         LET opened == openOk /\ Exists(d)
             v == IF opened THEN Decode(impl, d, files[CacheFile(d)]) ELSE None
             st == IF v = None THEN "err" ELSE "ok"
         IN  /\ load' = [load EXCEPT
                    !.open = IF opened THEN "ok" ELSE "failed",
                    !.val = v, !.status = st]
             /\ EndLoad(d, st, v)
    /\ UNCHANGED <<impl, now, dirExists, files, mtime, cli>>
    /\ UNCHANGED matchVars

\* the value main holds for dataset d; nothing when the load gave none
LoadedMappings == IF results["mappings"] = None THEN << >>
                  ELSE results["mappings"][1]

LoadedPrices == IF results["prices"] = None THEN << >>
                ELSE results["prices"][1].data

\* u32::to_string and to_formatted_string, for the one digit numbers of
\* the model
Digits == <<"0", "1", "2", "3", "4", "5", "6", "7", "8", "9">>

to_string(n) == Digits[n + 1]

to_formatted_string(n) == Digits[n + 1]

\* Option::unwrap_or
unwrap_or(opt, default) == IF opt = None THEN default ELSE opt[1]

\* the key of item_id in prices.data: item_id.to_string() in main.rs, where
\* the table is keyed by String; the u32 itself for the table of client.rs
PriceKey(i, item_id) == IF i = "main" THEN to_string(item_id) ELSE item_id

\* a lookup that never finds its key
PricedIds_KeyMismatch(i, ids, data) == {}

\* match prices.data.get(..) { Some(price) => .., None => continue }: the
\* matched ids that have a price entry
PricedIds(i, ids, data) ==
    { item_id \in ids : PriceKey(i, item_id) \in DOMAIN data }

\* mappings.iter().find(|m| m.id == item_id).unwrap().name
NameOf(ms, item_id) ==
    LET first == CHOOSE j \in DOMAIN ms :
                    /\ ms[j].id = item_id
                    /\ \A k \in 1 .. (j - 1) : ms[k].id # item_id
    IN  ms[first].name

\* display_price: the line "{name} -> high: {}, low: {}"
display_price(name, price) ==
    [name |-> name,
     high |-> to_formatted_string(unwrap_or(price.high, 0)),
     low |-> to_formatted_string(unwrap_or(price.low, 0))]

\* the item arguments tried in whole runs: one that matches every name of
\* the mapping documents, one that matches one of them, one that matches none
RunItems == { <<"a">>, <<"A", "b">>, <<"'">> }

\* both loads returned: main matches the names, prints a line for every
\* matched id that has a price and returns Ok(()).  The item argument q,
\* parsed at the start of the run, is first read here; every display_price
\* unwraps SystemLocale::default(), which panics when there is no locale
Display(q, localeOk) ==
    /\ phase = "display"
    /\ LET ids == get_matching_item_ids(q, LoadedMappings)
           priced == PricedIds(impl, ids, LoadedPrices)
           lines == { [id |-> item_id,
                       line |-> display_price(NameOf(LoadedMappings, item_id),
                                  LoadedPrices[PriceKey(impl, item_id)])] :
                      item_id \in priced }
       IN  /\ priced = {} => localeOk
           /\ item' = q
           /\ mappings' = LoadedMappings
           /\ matches' = Some(ids)
           /\ out' = [printed |-> IF localeOk THEN lines ELSE {},
                      locale |-> IF priced = {} THEN "unused"
                                 ELSE IF localeOk THEN "ok" ELSE "failed"]
           /\ exit' = IF localeOk THEN "ok" ELSE "panic"
    /\ phase' = "exited"
    /\ step' = "none"
    /\ UNCHANGED <<impl, now, dirExists, files, mtime, cli, load, results,
                   lastRefresh>>

\* the process is gone, and with it its memory
Reap ==
    /\ phase = "exited"
    /\ phase' = "idle"
    /\ cli' = NoCli
    /\ load' = NoLoad
    /\ results' = NoResults
    /\ exit' = "none"
    /\ item' = << >>
    /\ mappings' = << >>
    /\ matches' = None
    /\ out' = NoOut
    /\ UNCHANGED <<impl, now, dirExists, files, mtime, step, lastRefresh>>

\* between runs the system clock moves, forward or (when it is set) backward
SetClock(t) ==
    /\ phase = "idle"
    /\ t # now
    /\ now' = t
    /\ UNCHANGED <<impl, dirExists, files, mtime, cli, phase, step, load,
                   results, lastRefresh, exit>>
    /\ UNCHANGED matchVars

Next ==
    \/ \E rm, fp \in BOOLEAN, ttlSecs \in TtlSecsChoices : StartRun(rm, fp, ttlSecs)
    \/ \E d \in Datasets : Decide(d)
    \/ \E d \in Datasets : Fetch(d)
    \/ \E d \in Datasets : CreateDir(d)
    \/ \E d \in Datasets : WriteCache(d)
    \/ \E d \in Datasets : ParseBody(d)
    \/ \E d \in Datasets : ReadCache(d)
    \/ \E q \in RunItems, localeOk \in BOOLEAN : Display(q, localeOk)
    \/ Reap
    \/ \E t \in Times : SetClock(t)

Spec == Init /\ [][Next]_vars

---------------------------------------------------------------------------
(* The matcher alone, over every query and mapping collection of the bounds *)

InitMatch ==
    /\ impl = "main"
    /\ now = 0
    /\ dirExists = FALSE
    /\ files = [d \in Datasets |-> Absent]
    /\ mtime = [d \in Datasets |-> 0]
    /\ cli = NoCli
    /\ phase = "idle"
    /\ step = "none"
    /\ load = NoLoad
    /\ results = NoResults
    /\ lastRefresh = [d \in Datasets |-> None]
    /\ exit = "none"
    /\ item \in Queries
    /\ mappings \in MappingCollections
    /\ matches = None
    /\ out = NoOut

\* main: let item_ids = get_matching_item_ids(&cli.item, &mappings)
Match ==
    /\ matches = None
    /\ matches' = Some(get_matching_item_ids(item, mappings))
    /\ UNCHANGED <<impl, now, dirExists, files, mtime, cli, phase, step, load,
                   results, lastRefresh, exit, item, mappings, out>>

NextMatch == Match

SpecMatch == InitMatch /\ [][NextMatch]_vars

---------------------------------------------------------------------------
(* Properties *)

\* the load on record has returned or panicked
LoadDone == load.status \in {"ok", "err", "panic"}

\* the load on record took the refresh branch and got a body
Refetched ==
    /\ load.ds \in Datasets
    /\ load.decision = "refresh"
    /\ load.fetch = "ok"

\* C1: when a load refreshes, the fetch succeeds and the decoding of the
\* fetched body fails, the cache file of the dataset is what it was before
\* the load (absent if it was absent).
C1_DecodeFailureKeepsCache ==
    (Refetched /\ load.write = "ok" /\ load.status = "err")
        => files[load.ds] = load.preFile

\* C2: when a load refreshes and the fetch fails (send or body receive), the
\* cache file and the cache directory are as before the load: nothing is
\* written and no directory is created.
C2_FetchFailureTouchesNothing ==
    (load.ds \in Datasets /\ load.fetch \in FetchFailures)
        => /\ files[load.ds] = load.preFile
           /\ dirExists = load.preDir
           /\ load.mkdir = "none"
           /\ load.write = "none"

\* a forced refresh over an existing cache file lost its response body
C2_Witness ==
    /\ load.ds \in Datasets
    /\ load.decision = "refresh"
    /\ load.fetch = "recv_failed"
    /\ load.status = "err"
    /\ load.preFile # Absent
    /\ files[load.ds] = load.preFile

\* C3: when a load refreshes and the fetch fails, the load ends with an error
\* and returns no value: the stale cache file is not read, even when it holds
\* a valid document.
C3_FetchFailureIsAnError ==
    (load.ds \in Datasets /\ load.fetch \in FetchFailures)
        => /\ load.status = "err"
           /\ load.val = None
           /\ load.open = "none"
           /\ results[load.ds] = None
           /\ phase = "exited"
           /\ exit = "err"

\* a fetch failed while the cache file held a document that decodes
C3_Witness ==
    /\ load.ds \in Datasets
    /\ load.fetch \in FetchFailures
    /\ load.decision = "refresh"
    /\ Decode(impl, load.ds, files[load.ds]) # None

\* C4: the mapping load refreshes iff mappings.json does not exist or the
\* force flag is set; a load that does not refresh never fetches, whatever
\* the age of the file, and a load that refreshes always fetches.
C4_MappingRefreshIffAbsentOrForced ==
    load.ds = "mappings"
        => /\ load.decision \in {"refresh", "cached"}
           /\ load.decision = "refresh"
                <=> (load.preFile = Absent \/ cli.refresh_mappings)
           /\ load.decision = "cached" => load.fetch = "none"
           /\ (load.decision = "refresh" /\ LoadDone) => load.fetch # "none"

\* a mapping file older than five minutes is used without a fetch
C4_Witness ==
    /\ load.ds = "mappings"
    /\ load.decision = "cached"
    /\ load.status = "ok"
    /\ load.age > FromSecs(FiveMinutes)

\* C5: the price load refreshes iff prices.json does not exist, or the force
\* flag is set, or the age of the file is strictly greater than the TTL; at
\* an age equal to the TTL the cache is used.
C5_PriceRefreshIffAbsentForcedOrOlderThanTtl ==
    (load.ds = "prices" /\ load.decision \in {"refresh", "cached"})
        => (load.decision = "refresh"
              <=> \/ load.preFile = Absent
                  \/ cli.force_prices
                  \/ load.age > cli.price_cache_ttl)

\* C6: when prices.json exists, force is off and the age of the file cannot
\* be determined, the price load returns an error to its caller, with no
\* fetch and no write.
C6_UnknownAgeIsAnError ==
    (load.ds = "prices" /\ ~load.ageKnown)
        => /\ load.status = "err"
           /\ exit = "err"
           /\ load.fetch = "none"
           /\ load.write = "none"

\* C6, amended: in that case the price load panics (the run aborts), with no
\* fetch, no directory creation and no write, and the cache file stays as it
\* was; it is not taken for a cache that needs a refresh.
C6_UnknownAgePanics ==
    (load.ds = "prices" /\ ~load.ageKnown)
        => /\ load.decision = "panic"
           /\ load.status = "panic"
           /\ exit = "panic"
           /\ phase = "exited"
           /\ load.fetch = "none"
           /\ load.mkdir = "none"
           /\ load.write = "none"
           /\ results["prices"] = None
           /\ files["prices"] = load.preFile

\* prices.json has a modification time later than the clock
C6_Witness ==
    /\ load.ds = "prices"
    /\ ~load.ageKnown
    /\ load.age < 0
    /\ load.preFile # Absent
    /\ ~cli.force_prices

\* C7: after a load that refreshes and succeeds the cache file holds the
\* fetched bytes as they came, and a load of the same dataset that follows it
\* on the cached path (and can open the file) returns the value the
\* refreshing load returned.
C7_CachedLoadReturnsRefreshedValue ==
    /\ (Refetched /\ load.status = "ok") => files[load.ds] = load.body
    /\ (load.ds \in Datasets /\ load.decision = "cached" /\ load.open = "ok"
          /\ load.prevRefresh # None)
         => /\ load.status = "ok"
            /\ load.val = load.prevRefresh

\* a cached load after a refresh whose body was not in canonical form
C7_Witness ==
    /\ load.ds \in Datasets
    /\ load.decision = "cached"
    /\ load.status = "ok"
    /\ load.prevRefresh # None
    /\ load.val = load.prevRefresh
    /\ files[load.ds] \in {MapBodyAPretty, PriceBodyAPretty}

\* C8: when the cache directory does not exist and the fetch and the decoding
\* succeed (and the file system accepts the calls), the first load creates
\* the directory before it writes, returns the value and leaves the cache
\* file in place.
C8_FirstLoadCreatesDirectory ==
    /\ load.mkdir = "ok" => dirExists
    /\ load.write # "none" => (load.mkdir = "ok" /\ dirExists)
    /\ \A d \in Datasets : Exists(d) => dirExists
    /\ (Refetched /\ ~load.preDir /\ Decode(impl, load.ds, load.body) # None
          /\ load.mkdir = "ok" /\ load.write = "ok" /\ LoadDone)
         => /\ load.status = "ok"
            /\ results[load.ds] # None
            /\ files[load.ds] = load.body

\* the first load of a fresh installation has returned its value
C8_Witness ==
    /\ load.ds = "mappings"
    /\ ~load.preDir
    /\ load.preFile = Absent
    /\ load.status = "ok"
    /\ dirExists
    /\ Exists("mappings")

---------------------------------------------------------------------------
(* Properties of the matcher *)

\* two characters that are the same letter, whatever their case
SameLetter(c1, c2) == c1 = c2 \/ {c1, c2} = {"a", "A"}

\* name contains query when case is ignored: compared character by character
ContainsIgnoringCase(name, query) ==
    \E off \in 0 .. (Len(name) - Len(query)) :
        \A j \in 1 .. Len(query) : SameLetter(name[off + j], query[j])

\* the same query in another letter case
SameIgnoringCase(q1, q2) ==
    /\ Len(q1) = Len(q2)
    /\ \A j \in 1 .. Len(q1) : SameLetter(q1[j], q2[j])

\* the positions of the entries whose name contains the query
MatchingEntries ==
    { i \in DOMAIN mappings : ContainsIgnoringCase(mappings[i].name, item) }

UniqueIds ==
    \A i, j \in DOMAIN mappings : mappings[i].id = mappings[j].id => i = j

\* C9: the matcher returns the ids of exactly the entries whose name contains
\* the query when case is ignored; the query in any other letter case gives
\* the same result; no match gives the empty set.
C9_MatcherIsCaseInsensitiveContainment ==
    matches # None
        => /\ matches[1] = { mappings[i].id : i \in MatchingEntries }
           /\ \A q \in Queries :
                SameIgnoringCase(q, item)
                    => get_matching_item_ids(q, mappings) = matches[1]
           /\ MatchingEntries = {} => matches[1] = {}

\* an upper case query matched a name that holds it in lower case, and left
\* another entry out
C9_Witness ==
    /\ matches # None
    /\ item = <<"A", "'">>
    /\ Len(mappings) = 2
    /\ mappings[1].name = <<"a", "'", "A">>
    /\ mappings[2].id # mappings[1].id
    /\ matches[1] = {mappings[1].id}

\* C10: the number of matches equals the number of mapping entries whose name
\* contains the query when case is ignored.
C10_MatchCountIsEntryCount ==
    matches # None => Cardinality(matches[1]) = Cardinality(MatchingEntries)

\* C10, amended: the number of matches equals the number of distinct ids
\* among those entries, which is the number of those entries when the ids of
\* the collection are unique.
C10_MatchCountIsDistinctIdCount ==
    matches # None
        => /\ Cardinality(matches[1]) =
                Cardinality({ mappings[i].id : i \in MatchingEntries })
           /\ UniqueIds => Cardinality(matches[1]) = Cardinality(MatchingEntries)

\* two entries with different ids both match
C10_Witness ==
    /\ matches # None
    /\ UniqueIds
    /\ Cardinality(MatchingEntries) = 2
    /\ Cardinality(matches[1]) = 2
    /\ item # << >>

---------------------------------------------------------------------------
(* Properties of the display and of whole runs *)

\* the price entry behind a printed line
PriceOf(p) == LoadedPrices[PriceKey(impl, p.id)]

\* C11: a printed line whose price entry has no high (or no low) shows a
\* marker for it that is not the rendering of the number 0.
C11_AbsentPriceIsNotShownAsZero ==
    \A p \in out.printed :
        /\ PriceOf(p).high = None => p.line.high # to_formatted_string(0)
        /\ PriceOf(p).low = None => p.line.low # to_formatted_string(0)

\* C12: nothing is matched or printed unless both loads have returned a
\* value: in a run in which a load fails no line is printed.
C12_NothingPrintedUnlessBothLoadsSucceeded ==
    /\ phase = "display"
         => (results["mappings"] # None /\ results["prices"] # None)
    /\ (matches # None \/ out.printed # {})
         => (results["mappings"] # None /\ results["prices"] # None)
    /\ load.status \in {"err", "panic"}
         => /\ out.printed = {}
            /\ matches = None
            /\ phase = "exited"
            /\ exit = load.status

\* the price load failed after the mappings were loaded
C12_Witness ==
    /\ load.ds = "prices"
    /\ load.status = "err"
    /\ results["mappings"] = Some(MappingsB)
    /\ results["prices"] = None
    /\ out.printed = {}
    /\ phase = "exited"

\* C13: a load that does not refresh does not fetch, create or write: the
\* cache file is the same after it whether the decoding succeeds or fails,
\* and when the decoding of the cached content fails the load returns an
\* error and the file is still there.
C13_CachedLoadTouchesNothing ==
    (load.ds \in Datasets /\ load.decision = "cached")
        => /\ load.fetch = "none"
           /\ load.mkdir = "none"
           /\ load.write = "none"
           /\ files[load.ds] = load.preFile
           /\ files[load.ds] # Absent
           /\ dirExists = load.preDir
           /\ LoadDone => load.open # "none"
           /\ (LoadDone /\ Decode(impl, load.ds, load.preFile) = None)
                => (load.status = "err" /\ load.val = None)

\* a cached load found a file that does not decode
C13_Witness ==
    /\ load.ds \in Datasets
    /\ load.decision = "cached"
    /\ load.open = "ok"
    /\ load.status = "err"
    /\ files[load.ds] = BadBody

\* C14: when the fetch of a refresh succeeds and the creation of the cache
\* directory or the write of the cache file fails, the load and the run fail:
\* no value is returned to main and nothing is displayed.
C14_WriteFailureFailsTheRun ==
    (load.ds \in Datasets
       /\ (load.mkdir = "failed" \/ load.write \in {"refused", "truncated"}))
        => /\ load.fetch = "ok"
           /\ load.status \in {"err", "panic"}
           /\ exit = load.status
           /\ phase = "exited"
           /\ load.val = None
           /\ results[load.ds] = None
           /\ matches = None
           /\ out.printed = {}

\* the write of a well formed price document was refused
C14_Witness ==
    /\ load.ds = "prices"
    /\ load.write = "refused"
    /\ Decode(impl, "prices", load.body) # None
    /\ results["mappings"] # None
    /\ phase = "exited"

\* the decision the refresh policy of the installed variant gives for the
\* load on record, from what that load saw of its own file and flag
OwnDecision ==
    IF load.ds = "mappings"
    THEN (IF load.preFile = Absent \/ cli.refresh_mappings
          THEN "refresh" ELSE "cached")
    ELSE IF load.preFile = Absent \/ cli.force_prices THEN "refresh"
    ELSE IF ~load.ageKnown THEN "panic"
    ELSE IF impl = "main" /\ load.age >= FromSecs(FiveMinutes) THEN "refresh"
    ELSE IF impl = "client" /\ load.age > cli.price_cache_ttl THEN "refresh"
    ELSE "cached"

\* C15: a mapping load leaves prices.json as it was and a price load leaves
\* mappings.json as it was, whatever their outcome; the refresh decision of a
\* load is determined by its own file, its own force flag and the TTL.
C15_LoadsDoNotInterfere ==
    load.ds \in Datasets
        => /\ files[OtherFile(load.ds)] = load.preOther
           /\ load.decision = OwnDecision

\* a forced mapping refresh wrote mappings.json beside an existing prices.json
C15_Witness ==
    /\ load.ds = "mappings"
    /\ load.write = "ok"
    /\ load.status = "ok"
    /\ load.preOther # Absent
    /\ files["prices"] = load.preOther
    /\ files["mappings"] # load.preFile

\* the matched ids that have an entry in the loaded price table
MatchedWithPrice ==
    { item_id \in matches[1] :
        \E k \in DOMAIN LoadedPrices :
            IF impl = "main" THEN k = Digits[item_id + 1] ELSE k = item_id }

\* C16: when a matched id has no entry in the price table the run still ends
\* well (given a locale): the id is skipped and one line is printed for each
\* matched id that has a price entry.
C16_UnpricedMatchesAreSkipped ==
    (phase = "exited" /\ matches # None /\ out.locale # "failed")
        => /\ exit = "ok"
           /\ { p.id : p \in out.printed } = MatchedWithPrice
           /\ Cardinality(out.printed) = Cardinality(MatchedWithPrice)

\* two ids matched, one of them without a price entry
C16_Witness ==
    /\ phase = "exited"
    /\ matches = Some({1, 2})
    /\ MatchedWithPrice = {1}
    /\ Cardinality(out.printed) = 1
    /\ exit = "ok"

\* C17: every cache file on disk holds content that decodes (a file cut
\* short by a failed write is left aside).
C17_ExistingCacheFilesDecode ==
    \A d \in Datasets :
        (files[d] # Absent /\ files[d] # EmptyBody)
            => Decode(impl, d, files[d]) # None

\* C18: a cache file that exists is never removed: it exists in every later
\* state.
C18_CacheFilesAreNeverRemoved ==
    [][\A d \in Datasets : files[d] # Absent => files'[d] # Absent]_vars

\* an existing cache file has been overwritten with other content
C18_Witness ==
    /\ load.ds \in Datasets
    /\ load.preFile # Absent
    /\ load.write = "ok"
    /\ files[load.ds] # load.preFile
    /\ files[load.ds] # Absent

\* C19: after a price load that refreshed and succeeded at time t, a later
\* price load without force at t' with t' - t <= ttl does not fetch and
\* returns the value cached at t; one with t' - t > ttl fetches and, when it
\* succeeds, sets the modification time anew.
C19_FreshPriceCacheIsUsedUntilTtl ==
    (load.ds = "prices" /\ load.decision \in {"refresh", "cached"}
       /\ ~cli.force_prices /\ load.prevRefresh # None
       /\ load.ageKnown /\ load.age >= 0)
        => /\ load.age <= cli.price_cache_ttl
                => /\ load.decision = "cached"
                   /\ load.fetch = "none"
                   /\ load.open = "ok" => load.val = load.prevRefresh
           /\ load.age > cli.price_cache_ttl
                => /\ load.decision = "refresh"
                   /\ load.status = "ok" => mtime["prices"] = now

====
